---- MODULE Spec2Model ----
(***************************************************************************)
(* Model of simply-audio's Thread class (src/src/threads.cpp).             *)
(*                                                                         *)
(* One caller thread issues the public operations of Thread on a fixed set *)
(* of controller objects; every thread made by create() runs win_thread    *)
(* on its own OS thread, interleaved step by step with the caller.         *)
(* A create() makes one Impl, one ThreadContext and one OS thread, so the  *)
(* three share one index t.                                                *)
(***************************************************************************)
EXTENDS Integers, FiniteSets, TLC

\* ------------------------------------------------------------------ bounds

\* Thread records: the threads that can be around at one time (their Impl
\* alive or their OS thread not yet ended).
MaxThreads == 1

\* Cap on the OS suspend count one thread can reach.
MaxSuspendCount == 3

\* The count of re-raised failures saturates here.
MaxRethrows == 2

\* Threads that run side by side under SpecN, one per controller.
MaxWorkers == 2

\* Threads that use Win32Co side by side.
MaxProcs == 2

\* Win32Co objects that exist or are being constructed at one time.
MaxHolders == 2

\* Win32Co objects made as copies over a run (a copy shifts count for good,
\* so without a cap count would drift without end).
MaxCopies == 2

\* ------------------------------------------------------------- input sets

\* The Thread objects the caller owns.
Ctrl == {"a", "b"}

Thr == 1..MaxThreads

\* The thread records of the state: those of Thr, and those the controllers
\* of SpecN take.
AllThr == Thr \cup (1..MaxWorkers)

\* Integers a routine returns (callback1 of the example returns 42; -1 is
\* the value win_thread stores next to a captured exception).
Values == {-1, 42}

\* Exceptions a routine throws (callback2 of the example).
Excs == {"runtime_error"}

\* callback_t: a routine returns an integer or throws.
Routines ==
    [kind : {"ret"}, v : Values, e : {"none"}]
        \cup [kind : {"throw"}, v : {0}, e : Excs]

\* Threads that construct, copy and destroy Win32Co objects.
Procs == 1..MaxProcs

\* Arguments of try_join(ms): a finite wait or INFINITE.
Waits == {"finite", "INFINITE"}

\* Arguments of terminate(exit_code).
TermCodes == {0}

\* enum Thread::Priority
Priorities == {"LOWEST", "LOW", "NORMAL", "HIGH", "HIGHEST", "REAL_TIME"}

VARIABLES
    pimpl,      \* Thread::pimpl of each controller: 0 (nullptr) or an Impl
    ctrlLive,   \* whether a Thread object exists in the slot
    impl,       \* Thread::Impl objects
    ctx,        \* ThreadContext objects
    os,         \* the OS threads
    nThreads,   \* thread records used so far
    cpc,        \* where the caller is inside the operation in progress
    call,       \* the operation in progress
    last,       \* outcome of the last operation that returned or threw
    obs,        \* per thread: ResumeThread calls of start(), failures re-raised,
                \* whether it took the record of an earlier thread
    ub,         \* the worker read Impl::context of a destroyed Impl
    m,          \* Win32Co::m: 0 when free, else the thread that holds it
    count,      \* Win32Co::count
    com,        \* CoInitialize calls not yet balanced by CoUninitialize
    holders,    \* Win32Co objects within their lifetime
    copies,     \* Win32Co objects made by the implicit copy constructor
    copc        \* per thread: where it is inside Win32Co() or ~Win32Co()

\* The state of Win32Co and of the threads using it.
covars == <<m, count, com, holders, copies, copc>>

vars == <<pimpl, ctrlLive, impl, ctx, os, nThreads, cpc, call, last, obs, ub,
          m, count, com, holders, copies, copc>>

\* --------------------------------------------------------------- records

\* A routine slot before create() fills it.
NoRoutine == [kind |-> "none", v |-> 0, e |-> "none"]

\* struct ThreadContext, plus the holders of the shared_ptr that owns it.
NoContext ==
    [callback |-> NoRoutine, started |-> FALSE, completed |-> FALSE,
     exc |-> "nullptr", exit_code |-> 0, refs |-> {}]

\* The fields ThreadContext's constructor and initializers set.
ThreadContext(r) ==
    [callback |-> r, started |-> FALSE, completed |-> FALSE,
     exc |-> "nullptr", exit_code |-> 0, refs |-> {"impl"}]

\* struct Thread::Impl; thread is the HANDLE: "NULL", "open" or "closed".
NoImpl ==
    [live |-> FALSE, _suspended |-> FALSE, _joined |-> FALSE, thread |-> "NULL"]

\* An OS thread: where win_thread stands, the OS suspend count, the code
\* TerminateThread gave it.
NoOsThread == [wpc |-> "none", suspendCount |-> 0, termCode |-> 0]

\* Mutant of CreateSuspended: the thread is created running.
CreateRunning == [wpc |-> "entry", suspendCount |-> 0, termCode |-> 0]

\* _beginthreadex(..., CREATE_SUSPENDED, ...): the thread exists with suspend
\* count 1 and has not entered win_thread.
CreateSuspended == [wpc |-> "entry", suspendCount |-> 1, termCode |-> 0]

NoCall == [op |-> "none", c |-> "none", ms |-> "none", code |-> 0, src |-> "none"]

Call(op, c) == [op |-> op, c |-> c, ms |-> "none", code |-> 0, src |-> "none"]

\* What a finished operation gave its caller: res is "ok" (void return),
\* "value", "true", "false", or the kind of failure thrown: "UserError",
\* "Exited", "RuntimeError", or "rethrow" (the captured exception e).
Outcome(op, c, res, v, e) == [op |-> op, c |-> c, res |-> res, val |-> v, e |-> e]

Returned(op, c, res) == Outcome(op, c, res, 0, "none")

\* ------------------------------------------------------ Impl's predicates

started(t) == ctx[t].started

completed(t) == ctx[t].completed

running(t) == started(t) /\ ~completed(t) /\ ~impl[t]._suspended

suspended(t) == started(t) /\ ~completed(t) /\ impl[t]._suspended

joined(t) == impl[t]._joined

\* ---------------------------------------------------------- OS predicates

\* win_thread has returned or the thread was terminated: the handle is
\* signaled for WaitForSingleObject.
Signaled(t) == os[t].wpc \in {"exited", "killed"}

\* The scheduler may run the thread.
Runnable(t) ==
    /\ os[t].suspendCount = 0
    /\ os[t].wpc \in {"entry", "copied", "started", "running", "stored", "completed"}

\* ~Impl -> detach(): CloseHandle(thread); then the member context releases
\* its reference to the ThreadContext.
ImplDestroyed(t) == [impl EXCEPT ![t].live = FALSE, ![t].thread = "closed"]

ContextReleased(t, who) == [ctx EXCEPT ![t].refs = @ \ {who}]

\* ------------------------------------------------------------------- Init

Init ==
    /\ pimpl = [c \in Ctrl |-> 0]
    /\ ctrlLive = [c \in Ctrl |-> TRUE]
    /\ impl = [t \in AllThr |-> NoImpl]
    /\ ctx = [t \in AllThr |-> NoContext]
    /\ os = [t \in AllThr |-> NoOsThread]
    /\ nThreads = 0
    /\ cpc = "idle"
    /\ call = NoCall
    /\ last = Returned("none", "none", "ok")
    /\ obs = [t \in AllThr |-> [resumes |-> 0, rethrows |-> 0, reused |-> FALSE]]
    /\ ub = FALSE
    /\ m = 0
    /\ count = 0
    /\ com = 0
    /\ holders = 0
    /\ copies = 0
    /\ copc = [p \in Procs |-> "idle"]

\* ------------------------------------------------------------- win_thread

\* Mutant of WorkerCopy: win_thread keeps the pointer and takes no reference.
WorkerCopyNoRef(t) ==
    /\ Runnable(t) /\ os[t].wpc = "entry"
    /\ os' = [os EXCEPT ![t].wpc = "copied"]
    /\ UNCHANGED <<covars, pimpl, ctrlLive, impl, ctx, nThreads, cpc, call, last, obs, ub>>

\* line 77: copy Impl::context through the pointer create() passed. The
\* pointer dangles once the Impl is destroyed.
WorkerCopy(t) ==
    /\ Runnable(t) /\ os[t].wpc = "entry"
    /\ IF impl[t].live
       THEN /\ ctx' = [ctx EXCEPT ![t].refs = @ \cup {"worker"}]
            /\ os' = [os EXCEPT ![t].wpc = "copied"]
            /\ ub' = ub
       ELSE \* undefined behaviour: the read faults, or it finds the stale
            \* pointer still in place and goes on with the released context
            /\ ub' = TRUE
            /\ \/ os' = [os EXCEPT ![t].wpc = "ub"] /\ ctx' = ctx
               \/ /\ os' = [os EXCEPT ![t].wpc = "copied"]
                  /\ ctx' = [ctx EXCEPT ![t].refs = @ \cup {"worker"}]
    /\ UNCHANGED <<covars, pimpl, ctrlLive, impl, nThreads, cpc, call, last, obs>>

\* Mutant of WorkerStarted: completed is set along with started.
WorkerStartedCompleted(t) ==
    /\ Runnable(t) /\ os[t].wpc = "copied"
    /\ ctx' = [ctx EXCEPT ![t].started = TRUE, ![t].completed = TRUE]
    /\ os' = [os EXCEPT ![t].wpc = "started"]
    /\ UNCHANGED <<covars, pimpl, ctrlLive, impl, nThreads, cpc, call, last, obs, ub>>

\* line 79: context->started = true
WorkerStarted(t) ==
    /\ Runnable(t) /\ os[t].wpc = "copied"
    /\ ctx' = [ctx EXCEPT ![t].started = TRUE]
    /\ os' = [os EXCEPT ![t].wpc = "started"]
    /\ UNCHANGED <<covars, pimpl, ctrlLive, impl, nThreads, cpc, call, last, obs, ub>>

\* line 82: the routine is entered
WorkerInvoke(t) ==
    /\ Runnable(t) /\ os[t].wpc = "started"
    /\ os' = [os EXCEPT ![t].wpc = "running"]
    /\ UNCHANGED <<covars, pimpl, ctrlLive, impl, ctx, nThreads, cpc, call, last, obs, ub>>

\* Mutant of StoreResult: the routine's return value is dropped.
StoreResultDropsValue(c, r) ==
    IF r.kind = "throw"
    THEN [c EXCEPT !.exc = r.e, !.exit_code = -1]
    ELSE c

\* lines 82-86: what win_thread stores when the routine r returns or throws
StoreResult(c, r) ==
    IF r.kind = "throw"
    THEN [c EXCEPT !.exc = r.e, !.exit_code = -1]
    ELSE [c EXCEPT !.exit_code = r.v]

\* Mutant of WorkerStore: the result slot is one for all threads.
WorkerStoreShared(t) ==
    /\ Runnable(t) /\ os[t].wpc = "running"
    /\ ctx' = [u \in DOMAIN ctx |->
                  IF u = t \/ ctx[u].refs # {}
                  THEN StoreResult(ctx[u], ctx[t].callback)
                  ELSE ctx[u]]
    /\ os' = [os EXCEPT ![t].wpc = "stored"]
    /\ UNCHANGED <<covars, pimpl, ctrlLive, impl, nThreads, cpc, call, last, obs, ub>>

WorkerStore(t) ==
    /\ Runnable(t) /\ os[t].wpc = "running"
    /\ ctx' = [ctx EXCEPT ![t] = StoreResult(@, @.callback)]
    /\ os' = [os EXCEPT ![t].wpc = "stored"]
    /\ UNCHANGED <<covars, pimpl, ctrlLive, impl, nThreads, cpc, call, last, obs, ub>>

\* line 88: context->completed = true
WorkerComplete(t) ==
    /\ Runnable(t) /\ os[t].wpc = "stored"
    /\ ctx' = [ctx EXCEPT ![t].completed = TRUE]
    /\ os' = [os EXCEPT ![t].wpc = "completed"]
    /\ UNCHANGED <<covars, pimpl, ctrlLive, impl, nThreads, cpc, call, last, obs, ub>>

\* lines 89-90: return; the local shared_ptr is released and the thread ends
WorkerReturn(t) ==
    /\ Runnable(t) /\ os[t].wpc = "completed"
    /\ ctx' = ContextReleased(t, "worker")
    /\ os' = [os EXCEPT ![t].wpc = "exited"]
    /\ UNCHANGED <<covars, pimpl, ctrlLive, impl, nThreads, cpc, call, last, obs, ub>>

\* ------------------------------------------------- the caller's operations

\* Mutant of Throws: the failing operation lets go of the controller's Impl.
ThrowsDetached(op, c, kind) ==
    /\ last' = Returned(op, c, kind)
    /\ pimpl' = [pimpl EXCEPT ![c] = 0]
    /\ UNCHANGED <<covars, ctrlLive, impl, ctx, os, nThreads, cpc, call, ub, obs>>

\* An operation that throws before it changed anything.
Throws(op, c, kind) ==
    /\ last' = Returned(op, c, kind)
    /\ UNCHANGED <<covars, pimpl, ctrlLive, impl, ctx, os, nThreads, cpc, call, ub, obs>>

\* The caller is between operations and the object c exists.
Idle(c) == cpc = "idle" /\ ctrlLive[c]

\* The records a new thread can take: the next unused one, or the one of a
\* thread that has ended and whose Impl is destroyed, of which nothing
\* remains for the program to reach.
FreeThreads ==
    {t \in Thr : \/ t = nThreads + 1
                 \/ t <= nThreads /\ ~impl[t].live /\ Signaled(t)}

\* The record the next thread takes.
NewThread == CHOOSE t \in FreeThreads : \A u \in FreeThreads : t <= u

\* Impl::create, lines 92-104, on a successful _beginthreadex: the new
\* ThreadContext, Impl and suspended OS thread of index t.
ImplCreate(c, t, r) ==
    /\ ctx' = [ctx EXCEPT ![t] = ThreadContext(r)]
    /\ impl' = [impl EXCEPT ![t] =
                   [live |-> TRUE, _suspended |-> FALSE, _joined |-> FALSE,
                    thread |-> "open"]]
    /\ os' = [os EXCEPT ![t] = CreateSuspended]
    /\ obs' = [obs EXCEPT ![t] =
                  [resumes |-> 0, rethrows |-> 0, reused |-> t <= nThreads]]
    /\ nThreads' = IF t > nThreads THEN t ELSE nThreads
    /\ pimpl' = [pimpl EXCEPT ![c] = t]

\* Mutant of create: create() does not look at pimpl.
create_unchecked(c, r) ==
    /\ Idle(c)
    /\ \/ /\ FreeThreads # {}
          /\ ImplCreate(c, NewThread, r)
          /\ last' = Returned("create", c, "ok")
          /\ UNCHANGED <<covars, ctrlLive, cpc, call, ub>>
       \/ /\ pimpl[c] # 0
          /\ last' = Returned("create", c, "ok")
          /\ UNCHANGED <<covars, pimpl, ctrlLive, impl, ctx, os, nThreads, cpc, call, ub, obs>>
       \/ Throws("create", c, "RuntimeError")

\* Thread::create, lines 266-270
create(c, r) ==
    /\ Idle(c)
    /\ IF pimpl[c] # 0
       THEN Throws("create", c, "UserError")
       ELSE \/ /\ FreeThreads # {}
               /\ ImplCreate(c, NewThread, r)
               /\ last' = Returned("create", c, "ok")
               /\ UNCHANGED <<covars, ctrlLive, cpc, call, ub>>
            \/ \* _beginthreadex returned NULL, lines 102-103: Impl's
               \* constructor throws and pimpl stays empty
               Throws("create", c, "RuntimeError")

\* The records a new thread can take when the OS has room for MaxWorkers
\* threads.
FreeWorkers ==
    {t \in AllThr : \/ t = nThreads + 1
                    \/ t <= nThreads /\ ~impl[t].live /\ Signaled(t)}

NewWorker == CHOOSE t \in FreeWorkers : \A u \in FreeWorkers : t <= u

\* Thread::create, lines 266-270, where the OS has room for MaxWorkers
\* threads.
create_n(c, r) ==
    /\ Idle(c)
    /\ IF pimpl[c] # 0
       THEN Throws("create", c, "UserError")
       ELSE \/ /\ FreeWorkers # {}
               /\ ImplCreate(c, NewWorker, r)
               /\ last' = Returned("create", c, "ok")
               /\ UNCHANGED <<covars, ctrlLive, cpc, call, ub>>
            \/ Throws("create", c, "RuntimeError")

\* Mutant of StartRefused: start() does not look at started.
StartRefusedNever(t) == FALSE

\* Whether start() refuses, line 137
StartRefused(t) == ctx[t].started

\* ResumeThread(thread): the suspend count after the call
ResumeThread(n) == IF n > 0 THEN n - 1 ELSE 0

\* Thread::start, lines 278-282, and Impl::start up to the spin, lines 137-140
start(c) ==
    /\ Idle(c)
    /\ IF pimpl[c] = 0 \/ StartRefused(pimpl[c])
       THEN Throws("start", c, "UserError")
       ELSE /\ os' = [os EXCEPT ![pimpl[c]].suspendCount = ResumeThread(@)]
            /\ obs' = [obs EXCEPT ![pimpl[c]].resumes = @ + 1]
            /\ cpc' = "start_spin"
            /\ call' = Call("start", c)
            /\ UNCHANGED <<covars, pimpl, ctrlLive, impl, ctx, nThreads, last, ub>>

\* Mutant of StartObserved: start() returns without waiting for the worker.
StartObservedNoWait(t) == TRUE

\* The condition that ends start()'s loop, line 144
StartObserved(t) == started(t)

\* Impl::start, lines 144-147: the spin ends and start() returns
StartReturn(c) ==
    /\ cpc = "start_spin" /\ call.c = c
    /\ StartObserved(pimpl[c])
    /\ cpc' = "idle"
    /\ call' = NoCall
    /\ last' = Returned("start", c, "ok")
    /\ UNCHANGED <<covars, pimpl, ctrlLive, impl, ctx, os, nThreads, ub, obs>>

\* The three-way split of suspend() and resume(), lines 151-156 and 164-169
StateError(t) ==
    IF ~started(t) THEN "UserError"
    ELSE IF completed(t) THEN "Exited"
    ELSE "UserError"

\* Thread::suspend, lines 284-288, and Impl::suspend's check, lines 150-156
suspend(c) ==
    /\ Idle(c)
    /\ IF pimpl[c] = 0
       THEN Throws("suspend", c, "UserError")
       ELSE IF ~running(pimpl[c])
       THEN Throws("suspend", c, StateError(pimpl[c]))
       ELSE /\ os[pimpl[c]].suspendCount < MaxSuspendCount
            /\ cpc' = "suspend_os"
            /\ call' = Call("suspend", c)
            /\ UNCHANGED <<covars, pimpl, ctrlLive, impl, ctx, os, nThreads, last, obs, ub>>

\* Impl::suspend, lines 157-159: SuspendThread, then _suspended = true. On a
\* thread that has already ended the OS call may fail or succeed.
SuspendOS(c) ==
    /\ cpc = "suspend_os" /\ call.c = c
    /\ cpc' = "idle"
    /\ call' = NoCall
    /\ \/ /\ os' = [os EXCEPT ![pimpl[c]].suspendCount =
                        IF Signaled(pimpl[c]) THEN @ ELSE @ + 1]
          /\ impl' = [impl EXCEPT ![pimpl[c]]._suspended = TRUE]
          /\ last' = Returned("suspend", c, "ok")
       \/ /\ Signaled(pimpl[c])
          /\ last' = Returned("suspend", c, "RuntimeError")
          /\ UNCHANGED <<covars, impl, os>>
    /\ UNCHANGED <<covars, pimpl, ctrlLive, ctx, nThreads, ub, obs>>

\* The OS call Impl::resume makes, line 170: the suspend count after it
ResumeCall(n) == n + 1

\* Impl::resume past its check, lines 170-172
ImplResume(t) ==
    /\ os' = [os EXCEPT ![t].suspendCount = ResumeCall(@)]
    /\ impl' = [impl EXCEPT ![t]._suspended = FALSE]

\* Thread::resume, lines 290-294, and Impl::resume, lines 162-173
resume(c) ==
    /\ Idle(c)
    /\ IF pimpl[c] = 0
       THEN Throws("resume", c, "UserError")
       ELSE IF ~suspended(pimpl[c])
       THEN Throws("resume", c, StateError(pimpl[c]))
       ELSE /\ os[pimpl[c]].suspendCount < MaxSuspendCount
            /\ ImplResume(pimpl[c])
            /\ last' = Returned("resume", c, "ok")
            /\ UNCHANGED <<covars, pimpl, ctrlLive, ctx, nThreads, cpc, call, ub, obs>>

\* unique_ptr<Impl> reset of controller c: ~Impl closes the handle and the
\* Impl's reference to the context goes.
ImplDropped(c) ==
    /\ pimpl' = [pimpl EXCEPT ![c] = 0]
    /\ impl' = ImplDestroyed(pimpl[c])
    /\ ctx' = ContextReleased(pimpl[c], "impl")

\* Mutant of TerminateRefused: terminate() does not look at completed.
TerminateRefusedUnstarted(t) == ~started(t)

\* Whether terminate() refuses, line 184
TerminateRefused(t) == completed(t) \/ ~started(t)

\* Thread::terminate, lines 324-326, and Impl::terminate's check, lines 184-188
terminate(c, code) ==
    /\ Idle(c)
    /\ IF pimpl[c] = 0
       THEN Throws("terminate", c, "UserError")
       ELSE IF TerminateRefused(pimpl[c])
       THEN Throws("terminate", c,
                   IF completed(pimpl[c]) THEN "Exited" ELSE "UserError")
       ELSE /\ cpc' = "terminate_os"
            /\ call' = [Call("terminate", c) EXCEPT !.code = code]
            /\ UNCHANGED <<covars, pimpl, ctrlLive, impl, ctx, os, nThreads, last, obs, ub>>

\* Mutant of TerminateOS: the controller keeps its Impl after terminate().
TerminateKeepsImpl(c) ==
    /\ cpc = "terminate_os" /\ call.c = c
    /\ cpc' = "idle"
    /\ call' = NoCall
    /\ os' = [os EXCEPT ![pimpl[c]] =
                  IF Signaled(pimpl[c]) THEN @
                  ELSE [@ EXCEPT !.wpc = "killed", !.termCode = call.code]]
    /\ last' = Returned("terminate", c, "ok")
    /\ UNCHANGED <<covars, pimpl, impl, ctx, ctrlLive, nThreads, ub, obs>>

\* Impl::terminate, lines 189-190, then Thread::terminate, line 328. On a
\* thread that has already ended TerminateThread may fail or succeed.
TerminateOS(c) ==
    /\ cpc = "terminate_os" /\ call.c = c
    /\ cpc' = "idle"
    /\ call' = NoCall
    /\ \/ /\ os' = [os EXCEPT ![pimpl[c]] =
                        IF Signaled(pimpl[c]) THEN @
                        ELSE [@ EXCEPT !.wpc = "killed", !.termCode = call.code]]
          /\ ImplDropped(c)
          /\ last' = Returned("terminate", c, "ok")
       \/ /\ Signaled(pimpl[c])
          /\ last' = Returned("terminate", c, "RuntimeError")
          /\ UNCHANGED <<covars, pimpl, impl, ctx, os>>
    /\ UNCHANGED <<covars, ctrlLive, nThreads, ub, obs>>

\* Mutant of JoinRefused: try_join() does not look at joined.
JoinRefusedUnstarted(t) == ~started(t)

\* Whether try_join() refuses, lines 194-197
JoinRefused(t) == joined(t) \/ ~started(t)

\* Impl::try_join, lines 198-201, reached from operation op: a suspended
\* thread is resumed, then the caller waits on the handle.
TryJoinWait(op, c, ms, src) ==
    /\ IF suspended(pimpl[c])
       THEN /\ os[pimpl[c]].suspendCount < MaxSuspendCount
            /\ ImplResume(pimpl[c])
       ELSE UNCHANGED <<covars, impl, os>>
    /\ cpc' = "wait"
    /\ call' = [op |-> op, c |-> c, ms |-> ms, code |-> 0, src |-> src]

\* Thread::try_join, lines 337-341, and Impl::try_join, lines 193-201
try_join(c, ms) ==
    /\ Idle(c)
    /\ IF pimpl[c] = 0 \/ JoinRefused(pimpl[c])
       THEN Throws("try_join", c, "UserError")
       ELSE /\ TryJoinWait("try_join", c, ms, 0)
            /\ UNCHANGED <<covars, pimpl, ctrlLive, ctx, nThreads, last, obs, ub>>

\* Thread::join, lines 331-335, and Impl::join, lines 215-217
join(c) ==
    /\ Idle(c)
    /\ IF pimpl[c] = 0 \/ JoinRefused(pimpl[c])
       THEN Throws("join", c, "UserError")
       ELSE /\ TryJoinWait("join", c, "INFINITE", 0)
            /\ UNCHANGED <<covars, pimpl, ctrlLive, ctx, nThreads, last, obs, ub>>

\* The value try_join stores in _joined on WAIT_OBJECT_0, line 203
JoinedOnSignal == TRUE

\* Impl::try_join, lines 202-204: WAIT_OBJECT_0
WaitObject0(c) ==
    /\ cpc = "wait" /\ call.c = c /\ call.op \in {"join", "try_join"}
    /\ Signaled(pimpl[c])
    /\ impl' = [impl EXCEPT ![pimpl[c]]._joined = JoinedOnSignal]
    /\ last' = Returned(call.op, c, IF call.op = "join" THEN "ok" ELSE "true")
    /\ cpc' = "idle"
    /\ call' = NoCall
    /\ UNCHANGED <<covars, pimpl, ctrlLive, ctx, os, nThreads, ub, obs>>

\* Mutant of WaitTimeout: a timed-out wait marks the thread joined.
WaitTimeoutJoins(c) ==
    /\ cpc = "wait" /\ call.c = c /\ call.op = "try_join"
    /\ call.ms = "finite"
    /\ ~Signaled(pimpl[c])
    /\ impl' = [impl EXCEPT ![pimpl[c]]._joined = TRUE]
    /\ last' = Returned("try_join", c, "false")
    /\ cpc' = "idle"
    /\ call' = NoCall
    /\ UNCHANGED <<covars, pimpl, ctrlLive, ctx, os, nThreads, ub, obs>>

\* Impl::try_join, lines 206-208: WAIT_TIMEOUT
WaitTimeout(c) ==
    /\ cpc = "wait" /\ call.c = c /\ call.op = "try_join"
    /\ call.ms = "finite"
    /\ ~Signaled(pimpl[c])
    /\ impl' = [impl EXCEPT ![pimpl[c]]._joined = FALSE]
    /\ last' = Returned("try_join", c, "false")
    /\ cpc' = "idle"
    /\ call' = NoCall
    /\ UNCHANGED <<covars, pimpl, ctrlLive, ctx, os, nThreads, ub, obs>>

\* Mutant of ExitCodeResult: the captured exception is not looked at.
ExitCodeResultNoRethrow(c, x) ==
    Outcome("exit_code", c, "value", x.exit_code, "none")

\* What Impl::exit_code gives on a joined thread, lines 223-226
ExitCodeResult(c, x) ==
    IF x.exc # "nullptr"
    THEN Outcome("exit_code", c, "rethrow", 0, x.exc)
    ELSE Outcome("exit_code", c, "value", x.exit_code, "none")

\* Mutant of exit_code: the captured exception is cleared once re-raised.
exit_code_once(c) ==
    /\ Idle(c)
    /\ last' = IF pimpl[c] = 0 \/ ~joined(pimpl[c])
               THEN Returned("exit_code", c, "UserError")
               ELSE ExitCodeResult(c, ctx[pimpl[c]])
    /\ obs' = IF last'.res = "rethrow"
              THEN [obs EXCEPT ![pimpl[c]].rethrows =
                       IF @ < MaxRethrows THEN @ + 1 ELSE @]
              ELSE obs
    /\ ctx' = IF last'.res = "rethrow"
              THEN [ctx EXCEPT ![pimpl[c]].exc = "nullptr"]
              ELSE ctx
    /\ UNCHANGED <<covars, pimpl, ctrlLive, impl, os, nThreads, cpc, call, ub>>

\* Mutant of exit_code: the slot is read without looking at joined.
exit_code_unjoined(c) ==
    /\ Idle(c)
    /\ last' = IF pimpl[c] = 0
               THEN Returned("exit_code", c, "UserError")
               ELSE ExitCodeResult(c, ctx[pimpl[c]])
    /\ obs' = IF last'.res = "rethrow"
              THEN [obs EXCEPT ![pimpl[c]].rethrows =
                       IF @ < MaxRethrows THEN @ + 1 ELSE @]
              ELSE obs
    /\ UNCHANGED <<covars, pimpl, ctrlLive, impl, ctx, os, nThreads, cpc, call, ub>>

\* Thread::exit_code, lines 343-347, and Impl::exit_code, lines 219-227
exit_code(c) ==
    /\ Idle(c)
    /\ last' = IF pimpl[c] = 0 \/ ~joined(pimpl[c])
               THEN Returned("exit_code", c, "UserError")
               ELSE ExitCodeResult(c, ctx[pimpl[c]])
    /\ obs' = IF last'.res = "rethrow"
              THEN [obs EXCEPT ![pimpl[c]].rethrows =
                       IF @ < MaxRethrows THEN @ + 1 ELSE @]
              ELSE obs
    /\ UNCHANGED <<covars, pimpl, ctrlLive, impl, ctx, os, nThreads, cpc, call, ub>>

\* Thread::detach, lines 320-322
detach(c) ==
    /\ Idle(c)
    /\ IF pimpl[c] = 0
       THEN UNCHANGED <<covars, pimpl, impl, ctx>>
       ELSE ImplDropped(c)
    /\ last' = Returned("detach", c, "ok")
    /\ UNCHANGED <<covars, ctrlLive, os, nThreads, cpc, call, ub, obs>>

\* The native levels of the switch in Impl::set_priority, lines 111-131
NativeLevels ==
    {"THREAD_PRIORITY_LOWEST", "THREAD_PRIORITY_BELOW_NORMAL",
     "THREAD_PRIORITY_NORMAL", "THREAD_PRIORITY_ABOVE_NORMAL",
     "THREAD_PRIORITY_HIGHEST"}

\* The native levels in the order Windows gives them, lowest first.
NativeOrder ==
    <<"THREAD_PRIORITY_LOWEST", "THREAD_PRIORITY_BELOW_NORMAL",
      "THREAD_PRIORITY_NORMAL", "THREAD_PRIORITY_ABOVE_NORMAL",
      "THREAD_PRIORITY_HIGHEST">>

\* The values nPriority can hold at line 132. The switch has no case for
\* REAL_TIME: nPriority is then read uninitialized, and may hold any native
\* level or a value SetThreadPriority rejects.
Native(p) ==
    CASE p = "LOWEST" -> {"THREAD_PRIORITY_LOWEST"}
      [] p = "LOW" -> {"THREAD_PRIORITY_BELOW_NORMAL"}
      [] p = "NORMAL" -> {"THREAD_PRIORITY_NORMAL"}
      [] p = "HIGH" -> {"THREAD_PRIORITY_ABOVE_NORMAL"}
      [] p = "HIGHEST" -> {"THREAD_PRIORITY_HIGHEST"}
      [] OTHER -> NativeLevels \cup {"invalid"}

\* enum Priority: the value of each enumerator
PriorityValue(p) ==
    CASE p = "LOWEST" -> 0
      [] p = "LOW" -> 1
      [] p = "NORMAL" -> 2
      [] p = "HIGH" -> 3
      [] p = "HIGHEST" -> 4
      [] p = "REAL_TIME" -> 5

\* Mutant of set_priority: running() is not looked at.
set_priority_running(c, p) ==
    /\ Idle(c)
    /\ IF pimpl[c] = 0
       THEN last' = Returned("set_priority", c, "UserError")
       ELSE \E n \in Native(p) :
                last' = IF n = "invalid"
                        THEN Outcome("set_priority", c, "RuntimeError",
                                     PriorityValue(p), "none")
                        ELSE Outcome("set_priority", c, "ok",
                                     PriorityValue(p), n)
    /\ UNCHANGED <<covars, pimpl, ctrlLive, impl, ctx, os, nThreads, cpc, call, ub, obs>>

\* Thread::set_priority, lines 272-276, and Impl::set_priority, lines 107-134.
\* Past the check of running(), the outcome keeps the level asked for (val)
\* and the native level SetThreadPriority was given (e).
set_priority(c, p) ==
    /\ Idle(c)
    /\ IF pimpl[c] = 0 \/ running(pimpl[c])
       THEN last' = Returned("set_priority", c, "UserError")
       ELSE \E n \in Native(p) :
                last' = IF n = "invalid"
                        THEN Outcome("set_priority", c, "RuntimeError",
                                     PriorityValue(p), "none")
                        ELSE Outcome("set_priority", c, "ok",
                                     PriorityValue(p), n)
    /\ UNCHANGED <<covars, pimpl, ctrlLive, impl, ctx, os, nThreads, cpc, call, ub, obs>>

\* Thread::~Thread, lines 246-252, then the destruction of the member pimpl.
\* A failure of join() is swallowed.
destroy(c) ==
    /\ Idle(c)
    /\ IF pimpl[c] = 0
       THEN /\ ctrlLive' = [ctrlLive EXCEPT ![c] = FALSE]
            /\ last' = Returned("destroy", c, "ok")
            /\ UNCHANGED <<covars, pimpl, impl, ctx, os, nThreads, cpc, call, ub, obs>>
       ELSE IF JoinRefused(pimpl[c])
       THEN /\ ImplDropped(c)
            /\ ctrlLive' = [ctrlLive EXCEPT ![c] = FALSE]
            /\ last' = Returned("destroy", c, "ok")
            /\ UNCHANGED <<covars, os, nThreads, cpc, call, ub, obs>>
       ELSE /\ TryJoinWait("destroy", c, "INFINITE", 0)
            /\ UNCHANGED <<covars, pimpl, ctrlLive, ctx, nThreads, last, obs, ub>>

\* ~Thread once the wait of its join() is over
DestroyReturn(c) ==
    /\ cpc = "wait" /\ call.c = c /\ call.op = "destroy"
    /\ Signaled(pimpl[c])
    /\ ImplDropped(c)
    /\ ctrlLive' = [ctrlLive EXCEPT ![c] = FALSE]
    /\ last' = Returned("destroy", c, "ok")
    /\ cpc' = "idle"
    /\ call' = NoCall
    /\ UNCHANGED <<covars, os, nThreads, ub, obs>>

\* Thread::Thread(), line 240
construct(c) ==
    /\ cpc = "idle" /\ ~ctrlLive[c]
    /\ ctrlLive' = [ctrlLive EXCEPT ![c] = TRUE]
    /\ last' = Returned("construct", c, "ok")
    /\ UNCHANGED <<covars, pimpl, impl, ctx, os, nThreads, cpc, call, ub, obs>>

\* Thread::Thread(callback_t, void*), lines 242-244. When create() throws,
\* no object comes to exist.
construct_create(c, r) ==
    /\ cpc = "idle" /\ ~ctrlLive[c]
    /\ \/ /\ FreeThreads # {}
          /\ ImplCreate(c, NewThread, r)
          /\ ctrlLive' = [ctrlLive EXCEPT ![c] = TRUE]
          /\ last' = Returned("construct_create", c, "ok")
          /\ UNCHANGED <<covars, cpc, call, ub>>
       \/ Throws("construct_create", c, "RuntimeError")

\* pimpl = std::move(o.pimpl), lines 255 and 262: d takes s's Impl, d's own
\* Impl (if any) is destroyed, s is left empty.
Moved(d, s) ==
    /\ pimpl' = [pimpl EXCEPT ![d] = pimpl[s], ![s] = 0]
    /\ IF pimpl[d] = 0
       THEN UNCHANGED <<covars, impl, ctx>>
       ELSE /\ impl' = ImplDestroyed(pimpl[d])
            /\ ctx' = ContextReleased(pimpl[d], "impl")

\* Thread::Thread(Thread&&), lines 254-256
move_construct(d, s) ==
    /\ cpc = "idle" /\ ~ctrlLive[d] /\ ctrlLive[s]
    /\ Moved(d, s)
    /\ ctrlLive' = [ctrlLive EXCEPT ![d] = TRUE]
    /\ last' = Returned("move_construct", d, "ok")
    /\ UNCHANGED <<covars, os, nThreads, cpc, call, ub, obs>>

\* Thread::operator=(Thread&&), lines 258-264, up to the wait of join()
move_assign(d, s) ==
    /\ Idle(d) /\ ctrlLive[s] /\ d # s
    /\ IF pimpl[d] = 0
       THEN /\ Moved(d, s)
            /\ last' = Returned("move_assign", d, "ok")
            /\ UNCHANGED <<covars, ctrlLive, os, nThreads, cpc, call, ub, obs>>
       ELSE IF JoinRefused(pimpl[d])
       THEN Throws("move_assign", d, "UserError")
       ELSE /\ TryJoinWait("move_assign", d, "INFINITE", s)
            /\ UNCHANGED <<covars, pimpl, ctrlLive, ctx, nThreads, last, obs, ub>>

\* operator= once the wait of its join() is over, lines 262-263
MoveAssignReturn(d) ==
    /\ cpc = "wait" /\ call.c = d /\ call.op = "move_assign"
    /\ Signaled(pimpl[d])
    /\ Moved(d, call.src)
    /\ last' = Returned("move_assign", d, "ok")
    /\ cpc' = "idle"
    /\ call' = NoCall
    /\ UNCHANGED <<covars, ctrlLive, os, nThreads, ub, obs>>

\* The four state queries of Thread, lines 296-318.
Queries == {"started", "running", "suspended", "completed"}

\* What Impl's predicate q gives for thread t, lines 50-64.
QueryValue(q, t) ==
    IF q = "started" THEN started(t)
    ELSE IF q = "running" THEN running(t)
    ELSE IF q = "suspended" THEN suspended(t)
    ELSE completed(t)

\* Thread::started, running, suspended, completed, lines 296-318
query(c, q) ==
    /\ Idle(c)
    /\ IF pimpl[c] = 0
       THEN Throws(q, c, "UserError")
       ELSE /\ last' = Returned(q, c, IF QueryValue(q, pimpl[c]) THEN "true" ELSE "false")
            /\ UNCHANGED <<covars, pimpl, ctrlLive, impl, ctx, os, nThreads, cpc, call, ub, obs>>

\* ------------------------------------------------------ the specification

Worker(t) ==
    \/ WorkerCopy(t)
    \/ WorkerStarted(t)
    \/ WorkerInvoke(t)
    \/ WorkerStore(t)
    \/ WorkerComplete(t)
    \/ WorkerReturn(t)

Caller(c) ==
    \/ \E r \in Routines : create(c, r)
    \/ start(c)
    \/ StartReturn(c)
    \/ suspend(c)
    \/ SuspendOS(c)
    \/ resume(c)
    \/ \E code \in TermCodes : terminate(c, code)
    \/ TerminateOS(c)
    \/ \E ms \in Waits : try_join(c, ms)
    \/ join(c)
    \/ WaitObject0(c)
    \/ WaitTimeout(c)
    \/ exit_code(c)
    \/ detach(c)
    \/ \E p \in Priorities : set_priority(c, p)
    \/ destroy(c)
    \/ DestroyReturn(c)
    \/ construct(c)
    \/ \E r \in Routines : construct_create(c, r)

Mover(c) ==
    \/ \E s \in Ctrl : move_construct(c, s)
    \/ \E s \in Ctrl : move_assign(c, s)
    \/ MoveAssignReturn(c)

\* One controller and its threads.
Next ==
    \/ Caller("a")
    \/ \E t \in Thr : Worker(t)

Spec == Init /\ [][Next]_vars

\* Two controllers, with moves between them.
NextMove ==
    \/ \E c \in Ctrl : Caller(c)
    \/ \E c \in Ctrl : Mover(c)
    \/ \E t \in Thr : Worker(t)

SpecMove == Init /\ [][NextMove]_vars

\* The steps the caller takes inside an operation it has begun: leaving the
\* spin of start(), the OS calls of suspend() and terminate(), the return of
\* a wait.
Continue(c) ==
    \/ StartReturn(c)
    \/ SuspendOS(c)
    \/ TerminateOS(c)
    \/ WaitObject0(c)
    \/ WaitTimeout(c)
    \/ DestroyReturn(c)

\* The OS schedules every runnable thread: a worker that can step does, and
\* so does a caller inside an operation. The caller need not begin another
\* operation.
FairSpec ==
    /\ Spec
    /\ \A t \in Thr : WF_vars(Worker(t))
    /\ WF_vars(Continue("a"))

\* The routines each controller is given under SpecN: every controller has
\* its own, with its own result.
RoutinesOf(c) ==
    IF c = "a"
    THEN {[kind |-> "ret", v |-> 42, e |-> "none"]}
    ELSE {[kind |-> "ret", v |-> -1, e |-> "none"],
          [kind |-> "throw", v |-> 0, e |-> "runtime_error"]}

\* N controllers, each created with its own routine, started and joined,
\* and their workers side by side.
NextN ==
    \/ \E c \in Ctrl :
          \/ \E r \in RoutinesOf(c) : create_n(c, r)
          \/ start(c)
          \/ StartReturn(c)
          \/ join(c)
          \/ WaitObject0(c)
          \/ exit_code(c)
    \/ \E t \in AllThr : Worker(t)

SpecN == Init /\ [][NextN]_vars

\* Two controllers with moves, and the state queries.
NextAll ==
    \/ \E c \in Ctrl : Caller(c)
    \/ \E c \in Ctrl : Mover(c)
    \/ \E c \in Ctrl : \E q \in Queries : query(c, q)
    \/ \E t \in Thr : Worker(t)

SpecAll == Init /\ [][NextAll]_vars

\* ---------------------------------------------------------------- Win32Co
\* src/src/init.cpp. count is a size_t: its arithmetic is modulo 2^64 (2^32
\* on a 32-bit build). The model keeps, for a value of count, the integer of
\* least magnitude congruent to it, so -1 stands for SIZE_MAX; the test
\* count == 0 is exact on these as long as fewer than 2^31 objects exist.

\* count ++ of line 14
SizeInc(n) == n + 1

\* count -- of line 19: 0 wraps to SIZE_MAX, kept as -1
SizeDec(n) == n - 1

\* CoInitialize(NULL): one more initialization to balance.
CoInitialize(n) == n + 1

\* CoUninitialize(): balances one CoInitialize; a call with none
\* outstanding has nothing to close.
CoUninitialize(n) == IF n > 0 THEN n - 1 ELSE 0

\* The threads inside Win32Co().
Constructing == {q \in Procs : copc[q] \in {"ctor_lock", "ctor_test", "ctor_inc", "ctor_unlock"}}

\* A thread begins Win32Co().
CoConstruct(p) ==
    /\ copc[p] = "idle"
    /\ holders + Cardinality(Constructing) < MaxHolders
    /\ copc' = [copc EXCEPT ![p] = "ctor_lock"]
    /\ UNCHANGED <<m, count, com, holders, copies>>
    /\ UNCHANGED <<pimpl, ctrlLive, impl, ctx, os, nThreads, cpc, call, last, obs, ub>>

\* lines 11 and 18: std::lock_guard<std::mutex> lock(m) waits until m is free
CoLockGuard(p) ==
    /\ copc[p] \in {"ctor_lock", "dtor_lock"}
    /\ m = 0
    /\ m' = p
    /\ copc' = [copc EXCEPT ![p] = IF copc[p] = "ctor_lock" THEN "ctor_test" ELSE "dtor_dec"]
    /\ UNCHANGED <<count, com, holders, copies>>
    /\ UNCHANGED <<pimpl, ctrlLive, impl, ctx, os, nThreads, cpc, call, last, obs, ub>>

\* lines 12-13: if ( count == 0 ) CoInitialize(NULL); the result of
\* CoInitialize is not looked at
CoTestInit(p) ==
    /\ copc[p] = "ctor_test"
    /\ com' = IF count = 0 THEN CoInitialize(com) ELSE com
    /\ copc' = [copc EXCEPT ![p] = "ctor_inc"]
    /\ UNCHANGED <<m, count, holders, copies>>
    /\ UNCHANGED <<pimpl, ctrlLive, impl, ctx, os, nThreads, cpc, call, last, obs, ub>>

\* line 14: count ++
CoIncrement(p) ==
    /\ copc[p] = "ctor_inc"
    /\ count' = SizeInc(count)
    /\ copc' = [copc EXCEPT ![p] = "ctor_unlock"]
    /\ UNCHANGED <<m, com, holders, copies>>
    /\ UNCHANGED <<pimpl, ctrlLive, impl, ctx, os, nThreads, cpc, call, last, obs, ub>>

\* line 15: the lock_guard releases m and the constructor returns: the
\* object's lifetime begins
CoConstructed(p) ==
    /\ copc[p] = "ctor_unlock"
    /\ m' = 0
    /\ holders' = holders + 1
    /\ copc' = [copc EXCEPT ![p] = "idle"]
    /\ UNCHANGED <<count, com, copies>>
    /\ UNCHANGED <<pimpl, ctrlLive, impl, ctx, os, nThreads, cpc, call, last, obs, ub>>

\* The copy constructor the compiler provides (the class declares none,
\* init.hpp lines 11-22): the class has no non-static member, so the copy
\* does nothing; it takes no lock and leaves count alone.
CoCopy(p) ==
    /\ copc[p] = "idle"
    /\ holders > 0
    /\ holders + Cardinality(Constructing) < MaxHolders
    /\ copies < MaxCopies
    /\ holders' = holders + 1
    /\ copies' = copies + 1
    /\ UNCHANGED <<m, count, com, copc>>
    /\ UNCHANGED <<pimpl, ctrlLive, impl, ctx, os, nThreads, cpc, call, last, obs, ub>>

\* A thread begins ~Win32Co() on an object: the object's lifetime ends.
CoDestruct(p) ==
    /\ copc[p] = "idle"
    /\ holders > 0
    /\ holders' = holders - 1
    /\ copc' = [copc EXCEPT ![p] = "dtor_lock"]
    /\ UNCHANGED <<m, count, com, copies>>
    /\ UNCHANGED <<pimpl, ctrlLive, impl, ctx, os, nThreads, cpc, call, last, obs, ub>>

\* line 19: count --
CoDecrement(p) ==
    /\ copc[p] = "dtor_dec"
    /\ count' = SizeDec(count)
    /\ copc' = [copc EXCEPT ![p] = "dtor_test"]
    /\ UNCHANGED <<m, com, holders, copies>>
    /\ UNCHANGED <<pimpl, ctrlLive, impl, ctx, os, nThreads, cpc, call, last, obs, ub>>

\* lines 20-21: if ( count == 0 ) CoUninitialize();
CoTestUninit(p) ==
    /\ copc[p] = "dtor_test"
    /\ com' = IF count = 0 THEN CoUninitialize(com) ELSE com
    /\ copc' = [copc EXCEPT ![p] = "dtor_unlock"]
    /\ UNCHANGED <<m, count, holders, copies>>
    /\ UNCHANGED <<pimpl, ctrlLive, impl, ctx, os, nThreads, cpc, call, last, obs, ub>>

\* line 22: the lock_guard releases m and the destructor returns
CoDestructed(p) ==
    /\ copc[p] = "dtor_unlock"
    /\ m' = 0
    /\ copc' = [copc EXCEPT ![p] = "idle"]
    /\ UNCHANGED <<count, com, holders, copies>>
    /\ UNCHANGED <<pimpl, ctrlLive, impl, ctx, os, nThreads, cpc, call, last, obs, ub>>

\* The threads using Win32Co, in every interleaving.
NextCo ==
    \E p \in Procs :
        \/ CoConstruct(p)
        \/ CoLockGuard(p)
        \/ CoTestInit(p)
        \/ CoIncrement(p)
        \/ CoConstructed(p)
        \/ CoCopy(p)
        \/ CoDestruct(p)
        \/ CoDecrement(p)
        \/ CoTestUninit(p)
        \/ CoDestructed(p)

SpecCo == Init /\ [][NextCo]_vars

\* ================================================================= claims

\* The thread controller c owns; only read where pimpl[c] # 0.
Routine(c) == ctx[pimpl[c]].callback

\* exit_code() was the last call on c, made on a thread c had joined.
ExitCodeAfterJoin(c) ==
    /\ last.op = "exit_code" /\ last.c = c
    /\ pimpl[c] # 0 /\ joined(pimpl[c])

\* C1 (safety part): whenever exit_code() was called on a joined controller
\* whose routine returns V without raising, the call returned exactly V.
C1_ValueIsRoutineResult ==
    \A c \in Ctrl :
        (ExitCodeAfterJoin(c) /\ Routine(c).kind = "ret")
            => (last.res = "value" /\ last.val = Routine(c).v)

\* C1: create(R); start(); join(); exit_code() with R returning V: the join()
\* that follows the start() returns, and exit_code() on the joined controller
\* returns exactly V, whatever the interleaving with the worker.
C1_CreateStartJoinExitCode ==
    /\ []C1_ValueIsRoutineResult
    /\ [](\A c \in Ctrl :
            (cpc = "wait" /\ call.op = "join" /\ call.c = c
                 /\ last.op = "start" /\ last.res = "ok" /\ last.c = c)
                => <>(cpc = "idle" /\ last.op = "join" /\ last.res = "ok"
                          /\ pimpl[c] # 0 /\ joined(pimpl[c])))

\* C1 witness: exit_code() returned 42 on a joined controller.
C1_Witness ==
    /\ ExitCodeAfterJoin("a")
    /\ Routine("a") = [kind |-> "ret", v |-> 42, e |-> "none"]
    /\ last.res = "value" /\ last.val = 42

\* C2: if the routine raised, every exit_code() on the joined controller
\* raises the captured failure, and exit_code() never returns an integer for
\* such a routine (not the -1 stored next to the failure either).
C2_RaisedRoutineIsRethrown ==
    \A c \in Ctrl :
        /\ (ExitCodeAfterJoin(c) /\ Routine(c).kind = "throw")
              => (last.res = "rethrow" /\ last.e = Routine(c).e)
        /\ (last.op = "exit_code" /\ last.c = c /\ last.res = "value")
              => (pimpl[c] # 0 /\ Routine(c).kind = "ret")

\* C2 witness: exit_code() re-raised the routine's exception after join().
C2_Witness ==
    /\ ExitCodeAfterJoin("a")
    /\ Routine("a").kind = "throw"
    /\ ctx[pimpl["a"]].exit_code = -1
    /\ last.res = "rethrow" /\ last.e = "runtime_error"

\* C3 as stated: a captured failure is raised by the first exit_code() after
\* join() and by no later call, so no thread's failure is raised twice.
C3_RaisedExactlyOnce ==
    \A t \in Thr : obs[t].rethrows <= 1

\* C3 amended: the captured failure stays stored on a joined controller
\* however often it was raised, so the first exit_code() after join() and
\* every later one raise it.
C3_RaisedAtEveryCall ==
    \A c \in Ctrl :
        (pimpl[c] # 0 /\ joined(pimpl[c]) /\ Routine(c).kind = "throw")
            => /\ ctx[pimpl[c]].exc = Routine(c).e
               /\ ExitCodeResult(c, ctx[pimpl[c]]).res = "rethrow"
               /\ (last.op = "exit_code" /\ last.c = c)
                     => (last.res = "rethrow" /\ obs[pimpl[c]].rethrows >= 1)

\* C3 witness: a second exit_code() raised the same failure again.
C3_Witness ==
    /\ ExitCodeAfterJoin("a")
    /\ last.res = "rethrow" /\ last.e = Routine("a").e
    /\ obs[pimpl["a"]].rethrows = 2

\* A call of start() on c that began in this step: it threw at once, or it
\* resumed the thread and went on to its spin.
StartCalled(c) ==
    /\ cpc = "idle"
    /\ \/ cpc' = "start_spin" /\ call'.c = c
       \/ cpc' = "idle" /\ last'.op = "start" /\ last'.c = c /\ last' # last

\* C4: once start() has resumed the thread, every further start() on the
\* controller throws UserError and issues no OS call: no thread is resumed
\* by start() twice and no thread is created by start().
C4_StartOnlyOnce ==
    /\ [](\A t \in Thr : obs[t].resumes <= 1)
    /\ [][\A c \in Ctrl :
            (StartCalled(c) /\ pimpl[c] # 0 /\ obs[pimpl[c]].resumes >= 1)
                => /\ cpc' = "idle"
                   /\ last'.res = "UserError"
                   /\ UNCHANGED <<os, obs, nThreads, impl, ctx, pimpl>>]_vars

\* C4 witness: a second start() on a started thread threw UserError.
C4_Witness ==
    /\ last = Returned("start", "a", "UserError")
    /\ pimpl["a"] # 0 /\ obs[pimpl["a"]].resumes = 1
    /\ started(pimpl["a"])

\* C5 (safety part): when start() has returned, the worker has copied the
\* context pointer and set started; and the worker never reads the context
\* field of a destroyed Impl.
C5_StartedBeforeStartReturns ==
    /\ ~ub
    /\ \A c \in Ctrl :
          (last.op = "start" /\ last.res = "ok" /\ last.c = c)
              => /\ pimpl[c] # 0
                 /\ started(pimpl[c])
                 /\ os[pimpl[c]].wpc \notin {"none", "entry", "copied", "ub"}

\* C5: start() returns only once the worker holds its own reference and has
\* set started, so a detach() or destruction right after it cannot leave the
\* worker a dangling context field; and under fair scheduling start()
\* returns.
C5_StartWaitsForWorker ==
    /\ []C5_StartedBeforeStartReturns
    /\ (cpc = "start_spin") ~> (cpc = "idle" /\ last.op = "start" /\ last.res = "ok")

\* C5 witness: the controller was detached or destroyed while the worker it
\* started was still short of completed; the worker holds the context.
C5_Witness ==
    /\ last.op \in {"detach", "destroy"} /\ last.c = "a"
    /\ pimpl["a"] = 0
    /\ \E t \in Thr :
          /\ ~impl[t].live
          /\ os[t].wpc \in {"started", "running", "stored"}
          /\ ctx[t].refs = {"worker"}

\* C6: a thread start() was never called for has not run: started is false,
\* win_thread has not been entered and the OS holds the thread suspended,
\* whatever else was done to its controller (set_priority, detach, moves,
\* destruction, refused join/suspend/resume/terminate).
C6_CreatedNotRunning ==
    \A t \in Thr :
        (t <= nThreads /\ obs[t].resumes = 0)
            => /\ ~started(t)
               /\ os[t].wpc = "entry"
               /\ os[t].suspendCount >= 1

\* C6 witness: a thread that was never started has been moved to the other
\* controller and a terminate() on it was refused.
C6_Witness ==
    /\ last = Returned("terminate", "b", "UserError")
    /\ pimpl["b"] # 0 /\ pimpl["a"] = 0 /\ ctrlLive["a"]
    /\ obs[pimpl["b"]].resumes = 0
    /\ os[pimpl["b"]].wpc = "entry"

\* C7: suspend() succeeds only when running() held, and then the OS thread
\* is paused and suspended() is true; otherwise it throws UserError (never
\* started, or already suspended) or Exited (completed) and issues no OS
\* suspend.
C7_SuspendMakesSuspended ==
    \A c \in Ctrl :
        /\ (cpc = "idle" /\ last = Returned("suspend", c, "ok"))
              => /\ pimpl[c] # 0
                 /\ suspended(pimpl[c])
                 /\ os[pimpl[c]].suspendCount >= 1
        /\ (cpc = "suspend_os" /\ call.c = c)
              => (pimpl[c] # 0 /\ started(pimpl[c]) /\ ~impl[pimpl[c]]._suspended)

\* C8: in every state where running() is true the OS thread is not
\* suspended; in particular after resume() has returned on a suspended
\* controller the OS suspend count is zero.
C8_RunningIsSchedulable ==
    \A c \in Ctrl :
        (pimpl[c] # 0 /\ running(pimpl[c]))
            => os[pimpl[c]].suspendCount = 0

\* C9: create; start; suspend(); resume(); join() terminates: a join() that
\* follows a successful resume() returns (and exit_code() then gives the
\* routine's result, as without the suspension).
C9_JoinAfterResumeReturns ==
    \A c \in Ctrl :
        (cpc = "wait" /\ call.op = "join" /\ call.c = c
             /\ last = Returned("resume", c, "ok"))
            ~> (cpc = "idle" /\ last = Returned("join", c, "ok"))

\* What exit_code() owes the caller for routine r.
RoutineOutcome(c, r) ==
    IF r.kind = "throw"
    THEN Outcome("exit_code", c, "rethrow", 0, r.e)
    ELSE Outcome("exit_code", c, "value", r.v, "none")

\* C10 (safety part): a try_join that returned false was made on a started
\* thread and left joined false, so a later join is not refused; and on a
\* joined controller exit_code() gives the routine's result.
C10_TimeoutLeavesJoinable ==
    \A c \in Ctrl :
        /\ (last = Returned("try_join", c, "false"))
              => /\ pimpl[c] # 0
                 /\ started(pimpl[c])
                 /\ ~joined(pimpl[c])
                 /\ ~JoinRefused(pimpl[c])
        /\ (pimpl[c] # 0 /\ joined(pimpl[c]))
              => ExitCodeResult(c, ctx[pimpl[c]]) = RoutineOutcome(c, Routine(c))

\* C10 (step part): a try_join whose wait ends on a thread that has ended
\* returns true, never false.
C10_TimeoutOnlyWhileAlive ==
    \A c \in Ctrl :
        (cpc = "wait" /\ call.c = c /\ Signaled(pimpl[c])
             /\ last'.op = "try_join" /\ last'.c = c /\ cpc' = "idle")
            => last'.res = "true"

\* The join or try_join(INFINITE) that follows a timed-out try_join on c is
\* waiting.
WaitingAfterTimeout(c) ==
    /\ cpc = "wait" /\ call.c = c
    /\ call.op \in {"join", "try_join"} /\ call.ms = "INFINITE"
    /\ last = Returned("try_join", c, "false")

ResumedByWait(c, op) ==
    /\ cpc = "wait" /\ call.c = c /\ call.op = op
    /\ last = Returned("suspend", c, "ok")
    /\ pimpl[c] # 0 /\ ~impl[pimpl[c]]._suspended

\* C11 (safety part): a join or try_join that resumed a suspended thread
\* waits on a thread the OS can schedule (or that has ended), so a try_join
\* that then times out leaves the thread running at the OS level.
C11_ResumedThreadIsSchedulable ==
    \A c \in Ctrl :
        (ResumedByWait(c, "join") \/ ResumedByWait(c, "try_join"))
            => (os[pimpl[c]].suspendCount = 0 \/ Signaled(pimpl[c]))

\* C11 (liveness part): join() on a suspended thread resumes it first, so it
\* eventually returns (the routines all terminate).
C11_JoinOnSuspendedReturns ==
    \A c \in Ctrl :
        ResumedByWait(c, "join")
            ~> (cpc = "idle" /\ last = Returned("join", c, "ok"))

\* C11: a paused thread is always waitable: join() on a suspended thread
\* eventually returns, and the thread a join or try_join resumed is running
\* at the OS level, not suspended.
C11_SuspendedIsWaitable ==
    /\ C11_JoinOnSuspendedReturns
    /\ []C11_ResumedThreadIsSchedulable

\* A call of join() or try_join() on c that began in this step: it threw at
\* once, or it went on to the OS wait.
JoinCalled(c) ==
    /\ cpc = "idle"
    /\ \/ cpc' = "wait" /\ call'.c = c /\ call'.op \in {"join", "try_join"}
       \/ /\ cpc' = "idle" /\ last'.c = c /\ last' # last
          /\ last'.op \in {"join", "try_join"}

\* The controller is Empty, start() never resumed its thread, or a join or
\* try_join on it has already succeeded.
NotJoinable(c) ==
    \/ pimpl[c] = 0
    \/ obs[pimpl[c]].resumes = 0
    \/ joined(pimpl[c])

\* C12: join() and try_join() on an Empty, never started or already joined
\* controller throw UserError at once: they do not reach the OS wait and
\* change nothing; and joined, once true, never becomes false again for as
\* long as the Impl lives.
C12_RefusedJoinDoesNotBlock ==
    /\ [][\A c \in Ctrl :
            (JoinCalled(c) /\ NotJoinable(c))
                => /\ cpc' = "idle"
                   /\ last'.res = "UserError"
                   /\ UNCHANGED <<pimpl, impl, ctx, os, nThreads, obs>>]_vars
    /\ [][\A t \in Thr :
            (impl[t].live /\ impl[t]._joined /\ impl'[t].live)
                => impl'[t]._joined]_vars

\* C12 witness: a join or try_join on an already joined controller threw
\* UserError.
C12_Witness ==
    /\ last.op \in {"join", "try_join"} /\ last.c = "a"
    /\ last.res = "UserError"
    /\ pimpl["a"] # 0 /\ joined(pimpl["a"])

\* C13: exit_code() throws UserError unless joined is true, and whenever the
\* controller can read the result/failure slot (joined is true) the worker
\* has written the slot, set completed and left win_thread: the slot is
\* never read while the worker may still write it.
C13_SlotReadAfterCompleted ==
    \A c \in Ctrl :
        /\ (last.op = "exit_code" /\ last.c = c /\ last.res # "UserError")
              => (pimpl[c] # 0 /\ joined(pimpl[c]))
        /\ (pimpl[c] # 0 /\ joined(pimpl[c]))
              => /\ completed(pimpl[c])
                 /\ os[pimpl[c]].wpc = "exited"
                 /\ ctx[pimpl[c]] =
                        StoreResult(ctx[pimpl[c]], ctx[pimpl[c]].callback)

\* C13 witness: exit_code() read the slot of a joined, completed thread
\* whose routine returned -1.
C13_Witness ==
    /\ last = Outcome("exit_code", "a", "value", -1, "none")
    /\ pimpl["a"] # 0 /\ joined(pimpl["a"])
    /\ completed(pimpl["a"])
    /\ Routine("a").kind = "ret"

\* A call of exit_code() on c made in this step.
ExitCodeCalled(c) ==
    /\ cpc = "idle" /\ cpc' = "idle"
    /\ last'.op = "exit_code" /\ last'.c = c /\ last' # last

\* C14: when terminate() has returned normally the controller is Empty, and
\* every join(), try_join() and exit_code() on an Empty controller throws
\* UserError at once: it neither waits nor returns a value.
C14_TerminatedIsEmpty ==
    /\ [](\A c \in Ctrl :
            (last = Returned("terminate", c, "ok"))
                => (cpc = "idle" /\ pimpl[c] = 0))
    /\ [][\A c \in Ctrl :
            (pimpl[c] = 0 /\ (JoinCalled(c) \/ ExitCodeCalled(c)))
                => /\ cpc' = "idle"
                   /\ last'.res = "UserError"
                   /\ UNCHANGED <<pimpl, impl, ctx, os, nThreads, obs>>]_vars

\* C14 witness: the thread was killed by terminate(), and a later join,
\* try_join or exit_code on the controller threw UserError.
C14_Witness ==
    /\ last.op \in {"join", "try_join", "exit_code"} /\ last.c = "a"
    /\ last.res = "UserError"
    /\ pimpl["a"] = 0
    /\ \E t \in Thr : os[t].wpc = "killed" /\ ~impl[t].live

\* A call of terminate() on c that began in this step: it threw at once, or
\* it went on to TerminateThread.
TerminateCalled(c) ==
    /\ cpc = "idle"
    /\ \/ cpc' = "terminate_os" /\ call'.c = c
       \/ cpc' = "idle" /\ last'.op = "terminate" /\ last'.c = c /\ last' # last

\* C15: terminate() called on an Empty controller or on a thread start() never
\* resumed throws UserError, called on a completed thread it throws Exited,
\* and in these cases the controller, its Impl, the context and the OS thread
\* are as before (still joinable if they were); called on a started, not
\* completed thread (running or suspended) it goes on to TerminateThread.
\* An OS thread is killed only by a terminate() that found it started and
\* not completed, and that terminate() returns normally.
C15_TerminateOnlyLiveThread ==
    /\ [][\A c \in Ctrl :
            TerminateCalled(c)
                => IF pimpl[c] = 0 \/ obs[pimpl[c]].resumes = 0
                   THEN /\ last' = Returned("terminate", c, "UserError")
                        /\ UNCHANGED <<pimpl, impl, ctx, os, nThreads, obs>>
                   ELSE IF completed(pimpl[c])
                   THEN /\ last' = Returned("terminate", c, "Exited")
                        /\ UNCHANGED <<pimpl, impl, ctx, os, nThreads, obs>>
                   ELSE /\ cpc' = "terminate_os"
                        /\ UNCHANGED <<pimpl, impl, ctx, os, last>>]_vars
    /\ [][\A t \in Thr :
            (os'[t].wpc = "killed" /\ os[t].wpc # "killed")
                => /\ cpc = "terminate_os" /\ pimpl[call.c] = t
                   /\ started(t)
                   /\ last' = Returned("terminate", call.c, "ok")]_vars

\* C15 witness: terminate() on a completed, not yet joined thread threw Exited
\* and the controller still has the thread, which a join() is not refused.
C15_Witness ==
    /\ last = Returned("terminate", "a", "Exited")
    /\ pimpl["a"] # 0 /\ completed(pimpl["a"])
    /\ impl[pimpl["a"]].thread = "open"
    /\ ~JoinRefused(pimpl["a"])

\* ~Thread on c is in its join() and the thread is live: started and not
\* completed, running or (until the join resumed it) suspended.
DestroyingLive(c) ==
    /\ cpc = "wait" /\ call.c = c /\ call.op = "destroy"
    /\ pimpl[c] # 0 /\ started(pimpl[c]) /\ ~completed(pimpl[c])

\* C16: destroying a controller whose thread is live blocks until the worker
\* has completed and then returns: the destructor ends, without a failure,
\* with the object gone, the worker completed and the handle closed.
C16_DestroyJoinsLiveThread ==
    \A c \in Ctrl :
        DestroyingLive(c)
            ~> (/\ cpc = "idle" /\ last = Returned("destroy", c, "ok")
                /\ ~ctrlLive[c] /\ pimpl[c] = 0
                /\ \A t \in Thr :
                       started(t) => (completed(t) /\ impl[t].thread = "closed"))

\* C17: a move construction or move assignment into d always completes: it
\* does not fail, whatever the state of the thread d owned (never started,
\* running, suspended, completed, already joined), and it leaves the other
\* controller, its source, Empty.
C17_MoveAlwaysTransfers ==
    \A d \in Ctrl :
        (last.op \in {"move_construct", "move_assign"} /\ last.c = d)
            => /\ last.res = "ok"
               /\ \A s \in Ctrl \ {d} : pimpl[s] = 0

\* A call of create() on c made in this step.
CreateCalled(c) ==
    /\ cpc = "idle" /\ cpc' = "idle"
    /\ last'.op = "create" /\ last'.c = c
    /\ (last' # last \/ obs' # obs)

\* C18 (common part): create() on a controller that is not Empty, whatever
\* the state of its thread, throws UserError and leaves the thread, its
\* context, the suspended and joined bits and the OS thread unchanged; and
\* create() succeeds only on an Empty controller, which then owns a new
\* thread.
C18_CreateRefusedUnlessEmpty ==
    \A c \in Ctrl :
        /\ (CreateCalled(c) /\ pimpl[c] # 0)
              => /\ last' = Returned("create", c, "UserError")
                 /\ UNCHANGED <<pimpl, impl, ctx, os, nThreads, obs>>
        /\ (CreateCalled(c) /\ last'.res = "ok")
              => /\ pimpl[c] = 0 /\ pimpl'[c] # 0
                 /\ ctx'[pimpl'[c]] = ThreadContext(ctx'[pimpl'[c]].callback)
                 /\ ~impl'[pimpl'[c]]._suspended /\ ~impl'[pimpl'[c]]._joined

SetPriorityCalled(c) ==
    /\ cpc = "idle" /\ cpc' = "idle"
    /\ last'.op = "set_priority" /\ last'.c = c /\ last' # last

\* C19: set_priority() throws UserError exactly when the controller is Empty
\* or running() is true; on a thread that is created and not started,
\* suspended or completed it reaches SetThreadPriority (it returns, or throws
\* RuntimeError because the OS refused); and in no case does it change
\* started, completed, suspended or joined.
C19_SetPriorityRefusedIffRunning ==
    [][\A c \in Ctrl :
         SetPriorityCalled(c)
             => /\ (last'.res = "UserError")
                       <=> (pimpl[c] = 0 \/ running(pimpl[c]))
                /\ last'.res \in {"UserError", "ok", "RuntimeError"}
                /\ UNCHANGED <<pimpl, impl, ctx, os, nThreads, obs>>]_vars

\* C19 witness: set_priority() returned on a suspended thread, which is
\* still suspended.
C19_Witness ==
    /\ last.op = "set_priority" /\ last.c = "a" /\ last.res = "ok"
    /\ last.e \in NativeLevels
    /\ pimpl["a"] # 0 /\ suspended(pimpl["a"])
    /\ os[pimpl["a"]].suspendCount = 1

\* The place of native level n in NativeOrder.
NativeRank(n) == CHOOSE i \in DOMAIN NativeOrder : NativeOrder[i] = n

\* C20: a set_priority() that got past the check of running() hands the OS a
\* defined native level, whichever of the six levels was asked for, and that
\* native level lies above the native level of every lower Priority: the
\* mapping is defined on all six levels and keeps their order.
C20_SixLevelsMappedInOrder ==
    \A c \in Ctrl :
        (last.op = "set_priority" /\ last.c = c /\ last.res # "UserError")
            => /\ last.res = "ok"
               /\ last.e \in NativeLevels
               /\ \A q \in Priorities :
                      PriorityValue(q) < last.val
                          => \A lvl \in Native(q) :
                                 /\ lvl \in NativeLevels
                                 /\ NativeRank(lvl) < NativeRank(last.e)

\* win_thread is between its copy of the shared_ptr (line 77) and its return:
\* it reads and writes the ThreadContext.
WorkerUsesContext(t) ==
    os[t].wpc \in {"copied", "started", "running", "stored", "completed"}

\* C21 (ownership part): the ThreadContext is held by the Impl while the Impl
\* lives and by the worker while win_thread uses it, so it is never
\* deallocated (no holder left) under either; the worker never reads the
\* context member of a destroyed Impl; and once the Impl is destroyed and
\* win_thread has returned nobody holds the context: it is deallocated.
C21_ContextOutlivesItsHolders ==
    /\ ~ub
    /\ \A t \in Thr :
          /\ impl[t].live => "impl" \in ctx[t].refs
          /\ WorkerUsesContext(t) => "worker" \in ctx[t].refs
          /\ (t <= nThreads /\ ~impl[t].live /\ os[t].wpc \in {"entry", "exited"})
                => ctx[t].refs = {}

\* C21 (step part): detach() can be called in every state between operations;
\* it returns at once, without a failure, and leaves the controller Empty.
C21_DetachNeverFails ==
    \A c \in Ctrl :
        (cpc = "idle" /\ cpc' = "idle" /\ last'.op = "detach" /\ last'.c = c
             /\ (last' # last \/ pimpl' # pimpl))
            => /\ last' = Returned("detach", c, "ok")
               /\ pimpl'[c] = 0
               /\ UNCHANGED os

\* C21: detach() never fails, never blocks and leaves the controller Empty;
\* a worker the OS was still running when its Impl was destroyed goes on to
\* the end of win_thread by itself, and its context is then deallocated; the
\* context is never deallocated under a holder.
C21_DetachLeavesWorkerRunning ==
    /\ []C21_ContextOutlivesItsHolders
    /\ [](\A c \in Ctrl : Idle(c) => ENABLED detach(c))
    /\ [][C21_DetachNeverFails]_vars
    /\ \A t \in Thr :
          (~impl[t].live /\ Runnable(t) /\ WorkerUsesContext(t))
              ~> (os[t].wpc = "exited" /\ completed(t) /\ ctx[t].refs = {})

\* C21 witness: detach() returned while the routine was running; the
\* controller is Empty and the worker is the only holder of the context.
C21_Witness ==
    /\ last = Returned("detach", "a", "ok")
    /\ pimpl["a"] = 0
    /\ \E t \in Thr :
          /\ os[t].wpc = "running" /\ os[t].suspendCount = 0
          /\ ~impl[t].live /\ impl[t].thread = "closed"
          /\ ctx[t].refs = {"worker"}

\* C22: with every controller created with its own routine and the workers
\* running side by side, exit_code() on a joined controller gives the result
\* or the failure of one of that controller's own routines, and the one its
\* own context holds; never that of another controller's routine.
C22_OwnResultOnly ==
    \A c \in Ctrl :
        /\ (last.op = "exit_code" /\ last.c = c /\ last.res # "UserError")
              => /\ \E r \in RoutinesOf(c) : last = RoutineOutcome(c, r)
                 /\ pimpl[c] # 0 /\ last = RoutineOutcome(c, Routine(c))
        /\ (pimpl[c] # 0) => Routine(c) \in RoutinesOf(c)
        /\ \A d \in Ctrl \ {c} : pimpl[c] # 0 => pimpl[d] # pimpl[c]

\* C22 witness: exit_code() on a returned 42 while b's worker, started as
\* well, was still inside its routine.
C22_Witness ==
    /\ last = Outcome("exit_code", "a", "value", 42, "none")
    /\ pimpl["a"] # 0 /\ joined(pimpl["a"])
    /\ pimpl["b"] # 0 /\ pimpl["b"] # pimpl["a"]
    /\ os[pimpl["b"]].wpc = "running"
    /\ obs[pimpl["b"]].resumes = 1

\* A new thread takes record t in this step.
RecordTaken(t) == ~impl[t].live /\ impl'[t].live

\* C23 (state part): completed implies started and implies that the result
\* or failure slot holds what the routine gave; joined implies completed.
C23_FlagsOrdered ==
    \A t \in AllThr :
        /\ completed(t)
              => /\ started(t)
                 /\ ctx[t] = StoreResult(ctx[t], ctx[t].callback)
        /\ joined(t) => completed(t)

\* C23 (step part): within the life of one thread, started and completed
\* never go back to false and change only in a step of win_thread, which
\* touches nothing of the controller; _joined changes only in a step of the
\* controller that ends a wait, which touches nothing of the context.
C23_FlagsWriters ==
    \A t \in AllThr :
        ~RecordTaken(t)
            => /\ started(t) => ctx'[t].started
               /\ completed(t) => ctx'[t].completed
               /\ (ctx'[t].started # ctx[t].started
                       \/ ctx'[t].completed # ctx[t].completed)
                     => /\ os'[t].wpc # os[t].wpc
                        /\ Runnable(t)
                        /\ UNCHANGED <<pimpl, ctrlLive, impl, cpc, call, last>>
               /\ (impl'[t]._joined # impl[t]._joined)
                     => /\ cpc = "wait" /\ cpc' = "idle"
                        /\ ~impl[t]._joined /\ Signaled(t)
                        /\ UNCHANGED <<ctx, os>>

\* C23: started and completed are written by the worker only, each once and
\* never back; completed implies started and a written slot; joined is
\* written by the controller only and implies completed.
C23_FlagsWrittenOnce ==
    /\ []C23_FlagsOrdered
    /\ [][C23_FlagsWriters]_vars

\* C23 witness: a join() has just set joined on a thread whose worker had set
\* started and completed.
C23_Witness ==
    /\ last = Returned("join", "a", "ok")
    /\ pimpl["a"] # 0 /\ impl[pimpl["a"]]._joined
    /\ ctx[pimpl["a"]].started /\ ctx[pimpl["a"]].completed
    /\ ctx[pimpl["a"]].exc = "runtime_error"

\* A thread makes the call CoUninitialize() in this step.
CoUninitializeCalled ==
    \E p \in Procs :
        copc[p] = "dtor_test" /\ copc'[p] = "dtor_unlock" /\ count = 0

\* C24 (state part): the subsystem is initialized whenever a Win32Co object
\* exists, and count has not wrapped below zero.
C24_InitializedWhileHeld ==
    /\ holders > 0 => com > 0
    /\ count >= 0

\* C24 (step part): CoInitialize is called only on an uninitialized
\* subsystem with count at 0, and when count goes from 0 to 1 it has been
\* called once; CoUninitialize is called only when no object remains, and
\* closes the one initialization there was.
C24_InitAndTeardownOnce ==
    /\ com' > com => count = 0 /\ com = 0
    /\ (count = 0 /\ count' = 1) => com' = 1
    /\ CoUninitializeCalled => holders = 0 /\ com = 1 /\ com' = 0

\* C24: under every interleaving of constructions and destructions of
\* Win32Co objects, the subsystem is initialized while an object exists, is
\* initialized once when count goes from 0 to 1, is torn down once when the
\* last object is released, and count never underflows.
C24_CountTracksHolders ==
    /\ []C24_InitializedWhileHeld
    /\ [][C24_InitAndTeardownOnce]_vars

\* The operations that need a thread: all but create, detach, the moves and
\* the destructor.
NeedsThread ==
    {"set_priority", "start", "suspend", "resume", "terminate", "join",
     "try_join", "exit_code"} \cup Queries

\* An operation on controller c ends in this step by throwing UserError or
\* Exited.
RefusedCall(c) ==
    /\ last' # last
    /\ last'.c = c
    /\ last'.res \in {"UserError", "Exited"}

\* C25 (first part): a call that throws UserError or Exited is a single step
\* of the caller that leaves every controller, Impl, context and OS thread
\* as it was: no thread taken or dropped, _suspended and _joined kept, no
\* ResumeThread, SuspendThread, TerminateThread or wait.
C25_RefusedCallChangesNothing ==
    \A c \in Ctrl :
        RefusedCall(c)
            => /\ cpc = "idle" /\ cpc' = "idle"
               /\ UNCHANGED <<pimpl, ctrlLive, impl, ctx, os, nThreads, call, obs>>

\* C25 (second part): on an Empty controller every operation that needs a
\* thread ends at once with UserError, and the controller stays Empty.
C25_EmptyRefusesAll ==
    \A c \in Ctrl :
        (Idle(c) /\ pimpl[c] = 0 /\ last' # last
               /\ last'.c = c /\ last'.op \in NeedsThread)
            => /\ last' = Returned(last'.op, c, "UserError")
               /\ pimpl'[c] = 0
               /\ cpc' = "idle"

\* On an Empty controller none of the operations that need a thread is held
\* back: each can be called and can only throw.
EmptyNeverBlocks ==
    \A c \in Ctrl :
        (Idle(c) /\ pimpl[c] = 0)
            => /\ ENABLED set_priority(c, "NORMAL")
               /\ ENABLED start(c)
               /\ ENABLED suspend(c)
               /\ ENABLED resume(c)
               /\ ENABLED terminate(c, 0)
               /\ ENABLED join(c)
               /\ ENABLED try_join(c, "finite")
               /\ ENABLED exit_code(c)
               /\ \A q \in Queries : ENABLED query(c, q)

\* C25: an operation that fails with UserError or Exited leaves the
\* controller as it was and makes no OS call; on an Empty controller every
\* operation other than create, detach, move and destruction fails with
\* UserError and leaves it Empty.
C25_FailedCallLeavesController ==
    /\ [][C25_RefusedCallChangesNothing]_vars
    /\ [][C25_EmptyRefusesAll]_vars
    /\ []EmptyNeverBlocks

\* C25 witness: suspend() has just thrown Exited on a controller that keeps
\* its joined thread.
C25_Witness ==
    /\ last = Returned("suspend", "a", "Exited")
    /\ cpc = "idle"
    /\ pimpl["a"] # 0 /\ impl[pimpl["a"]].live
    /\ impl[pimpl["a"]]._joined /\ ~impl[pimpl["a"]]._suspended
    /\ os[pimpl["a"]].wpc = "exited"
    /\ pimpl["b"] = 0

====
